---------------------------- MODULE Spec2Model ----------------------------
(***************************************************************************)
(* A model of dolmen: a typed HTML tree (tags, attributes, text) and its   *)
(* serialisation by to_string.                                             *)
(*                                                                         *)
(* A Rust String is modelled as a sequence of one-character strings, so    *)
(* that concatenation, prefixes and verbatim copies are real operations.   *)
(* A node is a record: an element [kind, attributes, children] or a text   *)
(* node [kind |-> "Text", content].  An attribute is [kind, value] for     *)
(* class / id and [kind |-> "data", entries, order] for the data           *)
(* attribute, where entries is the HashMap and order is the order in which *)
(* this HashMap instance iterates (unspecified by std, fixed per instance).*)
(***************************************************************************)
EXTENDS Integers, Sequences, FiniteSets

\* Total weight (nodes + attributes + data entries) the builder may allocate.
MaxSize == 4

----------------------------------------------------------------------------
(* Strings *)

\* The concatenation of a sequence of strings, in order, with no separator
\* (Iterator::collect::<String>()).
RECURSIVE Collect(_)
Collect(strs) ==
    IF strs = <<>> THEN <<>> ELSE Head(strs) \o Collect(Tail(strs))

\* [String]::join(sep)
RECURSIVE Join(_, _)
Join(strs, sep) ==
    IF strs = <<>> THEN <<>>
    ELSE IF Len(strs) = 1 THEN Head(strs)
    ELSE Head(strs) \o sep \o Join(Tail(strs), sep)

----------------------------------------------------------------------------
(* Input alphabets *)

TagKinds == {"div", "span", "html"}

TextContents == { <<>>, <<"<", "/", "d", "i", "v", ">">> }

AttrValues == { <<"f", "o">>, <<"\"", "<", ">", "&">> }

DataKeys == { <<"a">>, <<"b">> }

----------------------------------------------------------------------------
(* attributes *)

\* const ATTRIBUTE_NAME of class::Attribute and id::Attribute
ATTRIBUTE_NAME(kind) ==
    CASE kind = "class" -> <<"c", "l", "a", "s", "s">>
      [] kind = "id"    -> <<"i", "d">>

\* Attribute::value: self.0.clone()
AttributeValue(a) == a.value

\* A character as an HTML escaper would emit it.
Escape(c) ==
    CASE c = "<"  -> <<"&", "l", "t", ";">>
      [] c = ">"  -> <<"&", "g", "t", ";">>
      [] c = "&"  -> <<"&", "a", "m", "p", ";">>
      [] c = "\"" -> <<"&", "q", "u", "o", "t", ";">>
      [] OTHER    -> <<c>>

\* Mutation of NamedToString: the value is escaped.
NamedToStringEscaped(a) ==
    ATTRIBUTE_NAME(a.kind) \o <<"=", "\"">>
        \o Collect([i \in DOMAIN a.value |-> Escape(a.value[i])]) \o <<"\"">>

\* impl Base for T: Attribute -- format!(r#"{}="{}""#, ATTRIBUTE_NAME, value())
NamedToString(a) ==
    ATTRIBUTE_NAME(a.kind) \o <<"=", "\"">> \o AttributeValue(a) \o <<"\"">>

\* The closure of data::Attribute::to_string:
\* format!(r#"data-{}="{}""#, name, value)
DataFact(name, value) ==
    <<"d", "a", "t", "a", "-">> \o name \o <<"=", "\"">> \o value \o <<"\"">>

\* Mutation of HashMapIter: the iteration may end before every entry is seen.
HashMapIterPartial(entries) ==
    UNION { { o \in [1..n -> DOMAIN entries] :
                \A i, j \in DOMAIN o : i # j => o[i] # o[j] } :
            n \in 0..Cardinality(DOMAIN entries) }

\* The orders in which a HashMap holding `entries` may iterate: every entry
\* exactly once, in an order std does not specify.
HashMapIter(entries) ==
    { o \in [1..Cardinality(DOMAIN entries) -> DOMAIN entries] :
        \A i, j \in DOMAIN o : i # j => o[i] # o[j] }

\* Mutation of DataToString: every fact is followed by a space.
DataToStringTrailing(a) ==
    Collect([i \in DOMAIN a.order |->
                DataFact(a.order[i], a.entries[a.order[i]]) \o <<" ">>])

\* data::Attribute::to_string: iter().map(..).collect::<Vec<String>>().join(" ")
DataToString(a) ==
    Join([i \in DOMAIN a.order |-> DataFact(a.order[i], a.entries[a.order[i]])],
         <<" ">>)

\* attributes::Base::to_string, dispatched on the attribute's type
AttributeToString(a) ==
    IF a.kind = "data" THEN DataToString(a) ELSE NamedToString(a)

\* impl DefaultAttribute for class::Attribute, id::Attribute, data::Attribute
DefaultAttribute == {"class", "id", "data"}


\* Weight of an attribute in the builder's allocation budget.
AttrWeight(a) ==
    IF a.kind = "data" THEN 1 + Cardinality(DOMAIN a.entries) ELSE 1

RECURSIVE ListWeight(_)
ListWeight(attrs) ==
    IF attrs = <<>> THEN 0 ELSE AttrWeight(Head(attrs)) + ListWeight(Tail(attrs))

\* class::Attribute(value) and id::Attribute(value)
NamedAttributes ==
    { [kind |-> k, value |-> v] : k \in {"class", "id"}, v \in AttrValues }

\* data::Attribute(map): the HashMap comes with its own iteration order.
DataAttribute(entries) ==
    { [kind |-> "data", entries |-> entries, order |-> o] :
        o \in HashMapIter(entries) }

DataAttributes ==
    UNION { DataAttribute(e) :
              e \in UNION { [S -> AttrValues] : S \in SUBSET DataKeys } }

Attributes == NamedAttributes \cup DataAttributes

\* The attribute vectors of total weight at most w.
RECURSIVE AttrLists(_)
AttrLists(w) ==
    {<<>>} \cup
    UNION { { <<a>> \o l : l \in AttrLists(w - AttrWeight(a)) } :
              a \in { b \in Attributes : AttrWeight(b) <= w } }

\* The attribute vectors the budget allows, by the weight that is left.
AttrListsWithin == [w \in 0..(MaxSize - 1) |-> AttrLists(w)]

----------------------------------------------------------------------------
(* tags *)

\* const TAG_NAME: stringify!($name)
TAG_NAME(kind) ==
    CASE kind = "div"  -> <<"d", "i", "v">>
      [] kind = "span" -> <<"s", "p", "a", "n">>
      [] kind = "html" -> <<"h", "t", "m", "l">>

\* Mutation of FlowElement: html::Element is given the marker too.
FlowElementWithHtml == {"span", "div", "html", "Text"}

\* impl FlowElement for span::Element, div::Element, Text
FlowElement == {"span", "div", "Text"}

\* type Child of make_tag!(span / div / html, FlowElement, DefaultAttribute)
ChildBound(tag) == FlowElement

\* type Attribute of make_tag!(span / div / html, FlowElement, DefaultAttribute)
AttributeBound(tag) == DefaultAttribute

\* Text(content)
Text(content) == [kind |-> "Text", content |-> content]

\* $tag::Element { children, attributes }
Element(tag, attributes, children) ==
    [kind |-> tag, attributes |-> attributes, children |-> children]

\* Mutation of TextToString: markup characters are escaped.
TextToStringEscaped(node) == Collect([i \in DOMAIN node.content |-> Escape(node.content[i])])

\* impl Base for Text: self.0.clone()
TextToString(node) == node.content

\* Mutation of TagAttributes: the attributes are emitted last to first.
TagAttributesReversed(node) ==
    Collect([i \in DOMAIN node.attributes |->
                <<" ">> \o AttributeToString(
                    node.attributes[Len(node.attributes) + 1 - i])])

\* Mutation of TagAttributes: an attribute that renders to "" is skipped.
TagAttributesSkipEmpty(node) ==
    Collect([i \in DOMAIN node.attributes |->
                IF AttributeToString(node.attributes[i]) = <<>> THEN <<>>
                ELSE <<" ">> \o AttributeToString(node.attributes[i])])

\* The attributes string of Tag::to_string:
\* attributes().iter().map(|a| format!(" {}", a.to_string())).collect::<String>()
TagAttributes(node) ==
    Collect([i \in DOMAIN node.attributes |->
                <<" ">> \o AttributeToString(node.attributes[i])])

\* The values of attribute.to_string() inside that closure, one per attribute.
AttributeStrings(node) ==
    [i \in DOMAIN node.attributes |-> AttributeToString(node.attributes[i])]

\* Mutation of FormatEmpty: the space before "/>" is left out.
FormatEmptyNoSpace(name, attributes) ==
    <<"<">> \o name \o attributes \o <<"/", ">">>

\* format!("<{}{} />", TAG_NAME, attributes)
FormatEmpty(name, attributes) ==
    <<"<">> \o name \o attributes \o <<" ", "/", ">">>

\* format!("<{0}{2}>{1}</{0}>", TAG_NAME, children, attributes)
FormatFull(name, children, attributes) ==
    <<"<">> \o name \o attributes \o <<">">> \o children
        \o <<"<", "/">> \o name \o <<">">>

\* Mutation of IsEmpty: children without content count as no children.
IsEmptyBlank(children) ==
    \A i \in DOMAIN children :
        IF children[i].kind = "Text" THEN children[i].content = <<>> ELSE FALSE

\* The branch of Tag::to_string: children.len() == 0
IsEmpty(children) == Len(children) = 0

\* Base::to_string of a node, as a function of the tree.
RECURSIVE ToString(_)
ToString(node) ==
    IF node.kind = "Text" THEN TextToString(node)
    ELSE LET children   == node.children
             attributes == TagAttributes(node)
         IN  IF IsEmpty(children)
             THEN FormatEmpty(TAG_NAME(node.kind), attributes)
             ELSE FormatFull(TAG_NAME(node.kind),
                             Collect([i \in DOMAIN children |->
                                         ToString(children[i])]),
                             attributes)

\* Weight of a node (and of a vector of nodes) in the allocation budget.
RECURSIVE Size(_)
RECURSIVE PoolSize(_)
Size(node) ==
    IF node.kind = "Text" THEN 1
    ELSE 1 + ListWeight(node.attributes) + PoolSize(node.children)

PoolSize(nodes) ==
    IF nodes = <<>> THEN 0 ELSE Size(Head(nodes)) + PoolSize(Tail(nodes))

\* Height of a tree: 1 for a leaf.
RECURSIVE Depth(_)
Depth(node) ==
    IF node.kind = "Text" THEN 1
    ELSE IF node.children = <<>> THEN 1
    ELSE 1 + LET d == [i \in DOMAIN node.children |-> Depth(node.children[i])]
             IN  CHOOSE m \in {d[i] : i \in DOMAIN d} : \A i \in DOMAIN d : d[i] <= m

\* The node reached from `node` by following the child indexes of `path`.
RECURSIVE NodeAt(_, _)
NodeAt(node, path) ==
    IF path = <<>> THEN node ELSE NodeAt(node.children[Head(path)], Tail(path))

----------------------------------------------------------------------------
(* State *)

VARIABLES
    pool,      \* the boxed nodes built so far and not yet moved into a parent
    compile,   \* the last node! expansion submitted to the type checker
    pc,        \* "build", "render" (inside to_string), "done", "again"
    stack,     \* the call stack of to_string, innermost call last
    visited,   \* paths of the nodes to_string was called on, in call order
    returned,  \* [path, string] of every finished to_string call, in return order
    out,       \* the string returned by the outermost to_string call
    twin,      \* a structurally equal tree built separately
    out2       \* the string to_string returned for twin

vars == <<pool, compile, pc, stack, visited, returned, out, twin, out2>>

NoNode == [kind |-> "none"]

Init ==
    /\ pool = <<>>
    /\ compile = [tag |-> "none", children |-> <<>>, ok |-> TRUE]
    /\ pc = "build"
    /\ stack = <<>>
    /\ visited = <<>>
    /\ returned = <<>>
    /\ out = <<>>
    /\ twin = NoNode
    /\ out2 = <<>>

\* The node to_string is called on: the last one built.
Root == pool[Len(pool)]

----------------------------------------------------------------------------
(* Building: the text! and node! macros *)

\* text!($text): Box::new(tags::Text($text.into()))
TextMacro(content) ==
    /\ pc = "build"
    /\ PoolSize(pool) + 1 <= MaxSize
    /\ pool' = Append(pool, Text(content))
    /\ compile' = [tag |-> "Text", children |-> <<>>, ok |-> TRUE]
    /\ UNCHANGED <<pc, stack, visited, returned, out, twin, out2>>

\* The trait bounds of Element's fields: Vec<Box<dyn $children>> and
\* Vec<Box<dyn $attributes>>.  An expansion that breaks them does not compile.
TypeChecks(tag, attributes, children) ==
    /\ \A i \in DOMAIN children : children[i].kind \in ChildBound(tag)
    /\ \A i \in DOMAIN attributes : attributes[i].kind \in AttributeBound(tag)

\* node!($tag), node!($tag { children }), node!($tag ( attributes )) and
\* node!($tag ( attributes ) { children }): the last k boxes built are moved
\* into the new element.
NodeMacro(tag, attributes, k) ==
    /\ pc = "build"
    /\ k <= Len(pool)
    /\ LET rest     == SubSeq(pool, 1, Len(pool) - k)
           children == SubSeq(pool, Len(pool) - k + 1, Len(pool))
           ok       == TypeChecks(tag, attributes, children)
       IN  /\ compile' = [tag |-> tag,
                          children |-> [i \in DOMAIN children |-> children[i].kind],
                          ok |-> ok]
           /\ pool' = IF ok THEN Append(rest, Element(tag, attributes, children))
                      ELSE pool
    /\ UNCHANGED <<pc, stack, visited, returned, out, twin, out2>>


----------------------------------------------------------------------------
(* Rendering: Base::to_string, one call frame per node *)

\* A call of to_string on `node`: for an element the attributes string is
\* built before any child is looked at.
Enter(node, path) ==
    [node       |-> node,
     path       |-> path,
     rendered   |-> IF node.kind = "Text" THEN <<>> ELSE AttributeStrings(node),
     attributes |-> IF node.kind = "Text" THEN <<>> ELSE TagAttributes(node),
     acc        |-> <<>>,
     i          |-> 0]

\* Mutation of ChildrenDone: the iteration stops one child early.
ChildrenDoneEarly(frame) ==
    IF frame.node.kind = "Text" THEN TRUE
    ELSE frame.i >= Len(frame.node.children) - 1

\* children.iter() is exhausted: every child's to_string has returned.
ChildrenDone(frame) ==
    IF frame.node.kind = "Text" THEN TRUE
    ELSE frame.i = Len(frame.node.children)

\* The value a finished call returns.
Result(frame) ==
    IF frame.node.kind = "Text" THEN TextToString(frame.node)
    ELSE IF IsEmpty(frame.node.children)
         THEN FormatEmpty(TAG_NAME(frame.node.kind), frame.attributes)
         ELSE FormatFull(TAG_NAME(frame.node.kind), frame.acc, frame.attributes)

Top == stack[Len(stack)]

\* node.to_string() on the last node built, in a program that compiled.
Call ==
    /\ pc = "build"
    /\ pool # <<>>
    /\ compile.ok
    /\ pc' = "render"
    /\ stack' = <<Enter(Root, <<>>)>>
    /\ visited' = << <<>> >>
    /\ UNCHANGED <<pool, compile, returned, out, twin, out2>>

\* children.iter().map(|child| child.to_string()): the call on the next child.
Descend ==
    /\ pc = "render"
    /\ ~ChildrenDone(Top)
    /\ LET n    == Top.i + 1
           path == Append(Top.path, n)
       IN  /\ stack' = Append(stack, Enter(Top.node.children[n], path))
           /\ visited' = Append(visited, path)
    /\ UNCHANGED <<pool, compile, pc, returned, out, twin, out2>>

\* A call returns: its string is appended to the caller's collect::<String>(),
\* or handed to the caller of the outermost call.
Return ==
    /\ pc = "render"
    /\ ChildrenDone(Top)
    /\ LET r == Result(Top)
           d == Len(stack)
       IN  /\ returned' = Append(returned, [path |-> Top.path, string |-> r])
           /\ IF d = 1
              THEN /\ out' = r
                   /\ pc' = "done"
                   /\ stack' = <<>>
              ELSE /\ stack' = [SubSeq(stack, 1, d - 1) EXCEPT
                                  ![d - 1].acc = @ \o r,
                                  ![d - 1].i = @ + 1]
                   /\ UNCHANGED <<out, pc>>
    /\ UNCHANGED <<pool, compile, visited, twin, out2>>

\* All the functions f on DOMAIN sets with f[i] \in sets[i].
Choices(sets) ==
    { f \in [DOMAIN sets -> UNION { sets[i] : i \in DOMAIN sets }] :
        \A i \in DOMAIN sets : f[i] \in sets[i] }

\* The trees the same macro calls can build: equal to `node` in everything
\* but the iteration order of each HashMap.
RECURSIVE Rebuild(_)
Rebuild(node) ==
    IF node.kind = "Text" THEN {node}
    ELSE { Element(node.kind, as, cs) :
             as \in Choices([i \in DOMAIN node.attributes |->
                               IF node.attributes[i].kind = "data"
                               THEN DataAttribute(node.attributes[i].entries)
                               ELSE {node.attributes[i]}]),
             cs \in Choices([i \in DOMAIN node.children |->
                               Rebuild(node.children[i])]) }

\* to_string on a second, structurally equal tree.
RenderAgain ==
    /\ pc = "done"
    /\ \E t \in Rebuild(Root) :
          /\ twin' = t
          /\ out2' = ToString(t)
    /\ pc' = "again"
    /\ UNCHANGED <<pool, compile, stack, visited, returned, out>>

Build ==
    \/ \E content \in TextContents : TextMacro(content)
    \/ /\ PoolSize(pool) < MaxSize
       /\ \E attributes \in AttrListsWithin[MaxSize - PoolSize(pool) - 1] :
             \E tag \in TagKinds, k \in 0..Len(pool) :
                NodeMacro(tag, attributes, k)

Render == Call \/ Descend \/ Return

Next == Build \/ Render \/ RenderAgain

Spec == Init /\ [][Next]_vars

\* to_string runs to completion once called: nothing suspends it.
FairSpec == Spec /\ WF_vars(Descend) /\ WF_vars(Return)

----------------------------------------------------------------------------
(* Vocabulary of the properties *)

Range(f) == { f[i] : i \in DOMAIN f }

\* t occurs in s as a contiguous substring.
Contains(s, t) ==
    \E i \in 1..(Len(s) - Len(t) + 1) : SubSeq(s, i, i + Len(t) - 1) = t

\* The tag name the format prescribes for each element kind: the kind's name.
KindName(kind) ==
    CASE kind = "div"  -> <<"d", "i", "v">>
      [] kind = "span" -> <<"s", "p", "a", "n">>
      [] kind = "html" -> <<"h", "t", "m", "l">>

IsElement(node) == node.kind \in TagKinds

\* Each string of strs preceded by one space, in order.
RECURSIVE Prefixed(_)
Prefixed(strs) ==
    IF strs = <<>> THEN <<>> ELSE <<" ">> \o Head(strs) \o Prefixed(Tail(strs))

\* The node a finished call was made on.
NodeOf(r) == NodeAt(Root, r.path)

\* The string the finished call on child n of the node at path returned.
ChildString(path, n) ==
    (CHOOSE r \in Range(returned) : r.path = Append(path, n)).string

\* The strings of the children of the node at path, concatenated in order.
RECURSIVE ChildStrings(_, _, _)
ChildStrings(path, from, to) ==
    IF from > to THEN <<>>
    ELSE ChildString(path, from) \o ChildStrings(path, from + 1, to)

----------------------------------------------------------------------------
(* C1 *)

\* C1: every element with no children renders to exactly
\* '<' + tagName + attributesString + ' />', attributesString being the
\* attribute renderings each prefixed with a space, whatever the element kind
\* and the number of attributes, and the output holds no closing tag.
C1_SelfClosing ==
    \A r \in Range(returned) :
        LET node == NodeOf(r) IN
        (IsElement(node) /\ node.children = <<>>) =>
            /\ r.string = <<"<">> \o KindName(node.kind)
                            \o Prefixed(AttributeStrings(node))
                            \o <<" ", "/", ">">>
            /\ ~Contains(r.string, <<"<", "/">> \o KindName(node.kind) \o <<">">>)

\* A childless element with two or more attributes has been rendered.
C1_Witness ==
    \E r \in Range(returned) :
        /\ IsElement(NodeOf(r))
        /\ NodeOf(r).children = <<>>
        /\ Len(NodeOf(r).attributes) >= 2

----------------------------------------------------------------------------
(* C2 *)

\* C2: every element with one or more children renders to exactly
\* '<' + tagName + attributesString + '>' + the children's renderings in
\* order with no separator + '</' + tagName + '>'; only the number of
\* children decides the form, so children that render to "" still give the
\* open/close form.
C2_OpenClose ==
    \A r \in Range(returned) :
        LET node == NodeOf(r) IN
        (IsElement(node) /\ Len(node.children) >= 1) =>
            r.string = <<"<">> \o KindName(node.kind)
                         \o Prefixed(AttributeStrings(node)) \o <<">">>
                         \o ChildStrings(r.path, 1, Len(node.children))
                         \o <<"<", "/">> \o KindName(node.kind) \o <<">">>

\* A div whose only child is Text("") has been rendered as <div></div>.
C2_Witness ==
    \E r \in Range(returned) :
        /\ NodeOf(r).kind = "div"
        /\ NodeOf(r).attributes = <<>>
        /\ NodeOf(r).children = << [kind |-> "Text", content |-> <<>>] >>
        /\ r.string = <<"<", "d", "i", "v", ">", "<", "/", "d", "i", "v", ">">>

----------------------------------------------------------------------------
(* C3 *)

\* Where attribute j starts in the attributes string: after the earlier
\* attributes and their spaces.
RECURSIVE Offset(_, _)
Offset(strs, j) ==
    IF j = 1 THEN 0 ELSE Offset(strs, j - 1) + 1 + Len(strs[j - 1])

\* C3: in an element's rendering the attributes stand in the order of the
\* attributes vector, right after the tag name, each preceded by exactly one
\* space and with nothing else between two of them.
C3_AttributeOrder ==
    \A r \in Range(returned) :
        LET node == NodeOf(r)
            strs == AttributeStrings(node)
            base == 1 + Len(KindName(node.kind))
            n    == Len(strs)
        IN  IsElement(node) =>
              /\ \A j \in 1..n :
                    /\ r.string[base + Offset(strs, j) + 1] = " "
                    /\ SubSeq(r.string, base + Offset(strs, j) + 2,
                              base + Offset(strs, j) + 1 + Len(strs[j])) = strs[j]
              /\ LET after == base + Offset(strs, n + 1)
                 IN  IF node.children = <<>>
                     THEN SubSeq(r.string, after + 1, Len(r.string)) = <<" ", "/", ">">>
                     ELSE r.string[after + 1] = ">"

\* An element with three attributes, rendered differently, has been rendered.
C3_Witness ==
    \E r \in Range(returned) :
        /\ IsElement(NodeOf(r))
        /\ Len(NodeOf(r).attributes) >= 3
        /\ Cardinality(Range(AttributeStrings(NodeOf(r)))) >= 3

----------------------------------------------------------------------------
(* C4 *)

\* Some data attribute of the tree holds more than one entry.
RECURSIVE HasMultiData(_)
HasMultiData(node) ==
    IF node.kind = "Text" THEN FALSE
    ELSE \/ \E i \in DOMAIN node.attributes :
               IF node.attributes[i].kind = "data"
               THEN Cardinality(DOMAIN node.attributes[i].entries) > 1
               ELSE FALSE
         \/ \E i \in DOMAIN node.children : HasMultiData(node.children[i])

\* Some data attribute of the tree holds exactly one entry.
RECURSIVE HasSingleData(_)
HasSingleData(node) ==
    IF node.kind = "Text" THEN FALSE
    ELSE \/ \E i \in DOMAIN node.attributes :
               IF node.attributes[i].kind = "data"
               THEN Cardinality(DOMAIN node.attributes[i].entries) = 1
               ELSE FALSE
         \/ \E i \in DOMAIN node.children : HasSingleData(node.children[i])

\* The trees are equal when the iteration order of the HashMaps is ignored.
RECURSIVE StructurallyEqual(_, _)
StructurallyEqual(a, b) ==
    IF a.kind # b.kind THEN FALSE
    ELSE IF a.kind = "Text" THEN a.content = b.content
    ELSE /\ Len(a.attributes) = Len(b.attributes)
         /\ Len(a.children) = Len(b.children)
         /\ \A i \in DOMAIN a.attributes :
               LET x == a.attributes[i]
                   y == b.attributes[i]
               IN  IF x.kind # y.kind THEN FALSE
                   ELSE IF x.kind = "data" THEN x.entries = y.entries
                   ELSE x.value = y.value
         /\ \A i \in DOMAIN a.children :
               StructurallyEqual(a.children[i], b.children[i])

\* How many times character c occurs in s.
Count(s, c) == Cardinality({ i \in DOMAIN s : s[i] = c })

----------------------------------------------------------------------------
(* C5 *)

\* The pieces of s between its spaces, as str::split(' ') gives them.
RECURSIVE Split(_)
Split(s) ==
    IF \A i \in DOMAIN s : s[i] # " " THEN <<s>>
    ELSE LET i == CHOOSE k \in DOMAIN s :
                     s[k] = " " /\ \A m \in 1..(k - 1) : s[m] # " "
         IN  <<SubSeq(s, 1, i - 1)>> \o Split(SubSeq(s, i + 1, Len(s)))

\* The fact the format prescribes for one entry: data-<key>="<value>".
ExpectedFact(key, value) ==
    <<"d", "a", "t", "a", "-">> \o key \o <<"=", "\"">> \o value \o <<"\"">>

\* C5: a data attribute renders to one fact data-<key>="<value>" per entry of
\* its map, each entry once and nothing else, with exactly one space between
\* two facts and none before the first or after the last, whatever the order
\* in which the map iterates.
C5_DataFacts ==
    \A k \in DOMAIN stack :
        \A j \in DOMAIN stack[k].rendered :
            LET a == stack[k].node.attributes[j]
                str == stack[k].rendered[j]
            IN  a.kind = "data" =>
                  IF DOMAIN a.entries = {} THEN str = <<>>
                  ELSE /\ Len(Split(str)) = Cardinality(DOMAIN a.entries)
                       /\ Range(Split(str)) =
                            { ExpectedFact(key, a.entries[key]) : key \in DOMAIN a.entries }

\* to_string is running on an element with a two-entry data attribute whose
\* map iterates b before a.
C5_Witness ==
    \E k \in DOMAIN stack :
        \E j \in DOMAIN stack[k].rendered :
            /\ stack[k].node.attributes[j].kind = "data"
            /\ stack[k].node.attributes[j].order = << <<"b">>, <<"a">> >>
            /\ Len(stack[k].rendered[j]) > 0

----------------------------------------------------------------------------
(* C6 *)

\* C6: a class or id attribute renders to exactly name="value", the name
\* being the literal class or id and the value copied character for
\* character, markup characters included.
C6_NamedVerbatim ==
    \A k \in DOMAIN stack :
        \A j \in DOMAIN stack[k].rendered :
            LET a == stack[k].node.attributes[j] IN
            /\ a.kind = "class" =>
                 stack[k].rendered[j] =
                     <<"c", "l", "a", "s", "s", "=", "\"">> \o a.value \o <<"\"">>
            /\ a.kind = "id" =>
                 stack[k].rendered[j] = <<"i", "d", "=", "\"">> \o a.value \o <<"\"">>

\* to_string is running on an element with an id whose value holds ", <, >, &.
C6_Witness ==
    \E k \in DOMAIN stack :
        \E j \in DOMAIN stack[k].rendered :
            /\ stack[k].node.attributes[j].kind = "id"
            /\ stack[k].node.attributes[j].value = <<"\"", "<", ">", "&">>
            /\ Len(stack[k].rendered[j]) = 9

----------------------------------------------------------------------------
(* C7 *)

\* Where the string of child n starts in the rendering of the element at
\* path: after '<', the tag name, the attributes, '>' and the earlier children.
ChildStart(node, path, n) ==
    1 + Len(KindName(node.kind)) + Len(Prefixed(AttributeStrings(node))) + 1
      + Len(ChildStrings(path, 1, n - 1)) + 1

\* C7: a Text node renders to its content unchanged, and the rendering of an
\* element holds the content of each Text child, character for character, at
\* that child's position.
C7_TextVerbatim ==
    \A r \in Range(returned) :
        LET node == NodeOf(r) IN
        /\ node.kind = "Text" => r.string = node.content
        /\ IsElement(node) =>
             \A n \in DOMAIN node.children :
                 node.children[n].kind = "Text" =>
                     SubSeq(r.string, ChildStart(node, r.path, n),
                            ChildStart(node, r.path, n)
                              + Len(node.children[n].content) - 1)
                        = node.children[n].content

\* A div holding the text </div> after another child has been rendered.
C7_Witness ==
    \E r \in Range(returned) :
        /\ NodeOf(r).kind = "div"
        /\ Len(NodeOf(r).children) = 2
        /\ NodeOf(r).children[2] = [kind |-> "Text",
                                    content |-> <<"<", "/", "d", "i", "v", ">">>]

----------------------------------------------------------------------------
(* C8 *)

\* Every child of every element of the tree is of one of the given kinds.
RECURSIVE ChildrenAmong(_, _)
ChildrenAmong(node, kinds) ==
    IF node.kind = "Text" THEN TRUE
    ELSE \A i \in DOMAIN node.children :
            /\ node.children[i].kind \in kinds
            /\ ChildrenAmong(node.children[i], kinds)

\* C8 as stated: an element or text node of any of the kinds div, span, html
\* and Text is accepted as a child of a div, span or html element.
C8_AllKindsAccepted ==
    (compile.tag \in TagKinds
        /\ Range(compile.children) \subseteq {"div", "span", "html", "Text"})
    => compile.ok

\* C8 amended: the children of every element built are div, span or Text
\* nodes, a node! expansion is accepted exactly when all its children are of
\* these three kinds, and an html element is never a child.
C8_FlowChildren ==
    /\ \A i \in DOMAIN pool : ChildrenAmong(pool[i], {"div", "span", "Text"})
    /\ compile.tag \in TagKinds =>
          (compile.ok <=> Range(compile.children) \subseteq {"div", "span", "Text"})

\* An expansion with an html element among the children was rejected, the
\* html element being left where it was.
C8_Witness ==
    /\ compile.tag \in TagKinds
    /\ ~compile.ok
    /\ "html" \in Range(compile.children)
    /\ \E i \in DOMAIN pool : pool[i].kind = "html"

----------------------------------------------------------------------------
(* C9 *)

\* The paths of the nodes of a tree, parents before children, children in order.
RECURSIVE Preorder(_, _)
Preorder(node, path) ==
    IF node.kind = "Text" THEN <<path>>
    ELSE <<path>> \o Collect([i \in DOMAIN node.children |->
                                Preorder(node.children[i], Append(path, i))])

\* The paths of the nodes of a tree, children in order before their parent.
RECURSIVE Postorder(_, _)
Postorder(node, path) ==
    IF node.kind = "Text" THEN <<path>>
    ELSE Collect([i \in DOMAIN node.children |->
                    Postorder(node.children[i], Append(path, i))]) \o <<path>>

IsPrefix(a, b) == Len(a) <= Len(b) /\ SubSeq(b, 1, Len(a)) = a

\* While and after to_string runs: the calls so far follow the depth-first
\* order, no node is called twice, a call returns only after the calls on all
\* its children, what a caller has collected is exactly the strings of its
\* finished children, and the stack is no deeper than the tree.
Traversal ==
    pc # "build" =>
        /\ IsPrefix(visited, Preorder(Root, <<>>))
        /\ IsPrefix([i \in DOMAIN returned |-> returned[i].path], Postorder(Root, <<>>))
        /\ \A k \in DOMAIN stack :
              stack[k].acc = ChildStrings(stack[k].path, 1, stack[k].i)
        /\ Len(stack) <= Depth(Root)
        /\ pc \in {"done", "again"} =>
              /\ visited = Preorder(Root, <<>>)
              /\ Len(returned) = Len(visited)

\* C9: to_string terminates on every tree, having been called on each node
\* exactly once in depth-first order, every child's string being complete
\* before it is embedded in its parent's, with a call stack no deeper than the
\* tree.
C9_Terminates == []Traversal /\ (pc = "render" ~> pc = "done")

\* to_string has returned for a tree of depth 3 with four nodes.
C9_Witness ==
    /\ pc = "done"
    /\ Depth(Root) = 3
    /\ Len(visited) = 4

----------------------------------------------------------------------------
(* C10 *)

RECURSIVE TotalLen(_)
TotalLen(strs) ==
    IF strs = <<>> THEN 0 ELSE Len(Head(strs)) + TotalLen(Tail(strs))

\* C10: an attribute that renders to "" still gets its space: a childless div
\* whose only attribute is a data attribute with no entries renders to
\* '<div  />', and the attributes string of any element is longer than its
\* attribute renderings together by exactly the number of attributes, with a
\* space where each empty rendering stands.
C10_EmptyAttributeSpace ==
    /\ \A r \in Range(returned) :
          LET node == NodeOf(r) IN
          (/\ node.kind = "div"
           /\ node.children = <<>>
           /\ Len(node.attributes) = 1
           /\ node.attributes[1].kind = "data"
           /\ DOMAIN node.attributes[1].entries = {})
          => r.string = <<"<", "d", "i", "v", " ", " ", "/", ">">>
    /\ \A k \in DOMAIN stack :
          /\ Len(stack[k].attributes)
               = TotalLen(stack[k].rendered) + Len(stack[k].rendered)
          /\ \A j \in DOMAIN stack[k].rendered :
                stack[k].rendered[j] = <<>> =>
                    stack[k].attributes[Offset(stack[k].rendered, j) + 1] = " "

\* The childless div with one empty data attribute has been rendered.
C10_Witness ==
    \E r \in Range(returned) :
        /\ NodeOf(r).kind = "div"
        /\ NodeOf(r).children = <<>>
        /\ Len(NodeOf(r).attributes) = 1
        /\ NodeOf(r).attributes[1].kind = "data"
        /\ DOMAIN NodeOf(r).attributes[1].entries = {}
        /\ Len(r.string) = 8

=============================================================================
